---- MODULE Spec2Model ----
(***************************************************************************)
(* A model of bloat.py: the memory-hard key stretching chain `bloat`, its  *)
(* table-free recursive variant `crazybloat`, the multi-process combiner   *)
(* `multibloat` (multiprocessing.Pool.imap) and the two unit converters.   *)
(*                                                                         *)
(* Byte strings are sequences of numbers in 0..255.  The hashing function  *)
(* is a parameter of every entry point; it is modelled by a small family   *)
(* of incremental hashes (constructor, update, digest, digest_size) whose  *)
(* digests are at least 8 bytes long, as struct.unpack("!Q", ..) needs.    *)
(***************************************************************************)
EXTENDS Integers, Sequences, FiniteSets, TLC

\* ------------------------------------------------------------------ bounds
MaxIter == 3
MaxProc == 3

\* ------------------------------------------------------------- inputs
\* "test" (the key of integrity_test), "a" and the empty key.
Keys == { <<116, 101, 115, 116>>, <<97>>, <<>> }

\* Each provider: initial state, multiplier and modulus of the compression
\* step, and the digest size in bytes.
HashFuncs ==
  { [iv |-> 5381,  mult |-> 33,  modulus |-> 65521, digest_size |-> 8],
    [iv |-> 40503, mult |-> 131, modulus |-> 65267, digest_size |-> 10] }

NoDigest == <<>>

\* --------------------------------------------------------- hash provider
\* h.update(data): absorb data byte by byte into the running state.
RECURSIVE HashUpdate(_, _, _)
HashUpdate(hf, st, data) ==
  IF data = <<>> THEN st
  ELSE HashUpdate(hf, (st * hf.mult + Head(data) + 1) % hf.modulus, Tail(data))

\* hashfunc(data): a fresh state updated with data; hashfunc() when data = "".
HashNew(hf, data) == HashUpdate(hf, hf.iv, data)

\* h.digest(): digest_size bytes derived from the state; the state is kept.
HashDigest(hf, st) ==
  [i \in 1..hf.digest_size |->
     ((st + 17 * i) * (st \div (i + 1) + hf.mult + i) + (i * i) + st \div 251) % 256]

\* a[:8] of a byte string.
UnpackLen == 8
Slice8(s) == SubSeq(s, 1, IF Len(s) < UnpackLen THEN Len(s) ELSE UnpackLen)

\* unpack("!Q", bytes)[0] % m: the bytes read as a big-endian unsigned
\* integer, reduced modulo m.  The reduction is carried through the
\* positional sum so that no intermediate value exceeds 256 * m.
RECURSIVE BigEndianMod(_, _, _)
BigEndianMod(bytes, acc, m) ==
  IF bytes = <<>> THEN acc
  ELSE BigEndianMod(Tail(bytes), (acc * 256 + Head(bytes)) % m, m)

\* str(x) for x >= 0, as ASCII bytes.
RECURSIVE Str(_)
Str(x) == IF x < 10 THEN << 48 + x >> ELSE Str(x \div 10) \o << 48 + (x % 10) >>

\* "".join(digests)
RECURSIVE Join(_)
Join(ds) == IF ds = <<>> THEN <<>> ELSE Head(ds) \o Join(Tail(ds))

\* ---------------------------------------------------------------- bloat
\* Locals of one bloat call: table a, hasher state h, loop index c, the
\* last derived random_pos, and whether the body raised.
\* variant: the hasher is created empty, the key is never fed to it
BloatEnter_Unkeyed(hf, k) ==
  [a |-> <<>>, h |-> HashNew(hf, <<>>), c |-> 0, random_pos |-> 0, raised |-> FALSE]

BloatEnter(hf, k) ==
  [a |-> <<>>, h |-> HashNew(hf, k), c |-> 0, random_pos |-> 0, raised |-> FALSE]

\* variant: the digest is inserted at the front of the table
BloatAppend_Front(hf, s) == [s EXCEPT !.a = << HashDigest(hf, s.h) >> \o s.a]

\* line 49: a.append(h.digest())
BloatAppend(hf, s) == [s EXCEPT !.a = Append(s.a, HashDigest(hf, s.h))]

\* variant: the modulus is one too large
BloatRandomPos_OffByOne(last, c) == BigEndianMod(Slice8(last), 0, c + 2)

\* line 51: random_pos = unpack("!Q", a[-1][:8])[0] % (c+1)
BloatRandomPos(last, c) == BigEndianMod(Slice8(last), 0, c + 1)

BloatIndex(hf, s) == [s EXCEPT !.random_pos = BloatRandomPos(s.a[Len(s.a)], s.c)]

\* variant: only the 8 bytes used for the index are fed back
BloatFeed_Truncated(hf, s) ==
  IF s.random_pos + 1 \in 1..Len(s.a)
  THEN [s EXCEPT !.h = HashUpdate(hf, s.h, Slice8(s.a[s.random_pos + 1]))]
  ELSE [s EXCEPT !.raised = TRUE]

\* line 53: h.update(a[random_pos]); an index past the end raises IndexError.
BloatFeed(hf, s) ==
  IF s.random_pos + 1 \in 1..Len(s.a)
  THEN [s EXCEPT !.h = HashUpdate(hf, s.h, s.a[s.random_pos + 1])]
  ELSE [s EXCEPT !.raised = TRUE]

\* one pass of the loop body followed by xrange's next index
BloatBody(hf, s) ==
  LET t == BloatFeed(hf, BloatIndex(hf, BloatAppend(hf, s)))
  IN  IF t.raised THEN t ELSE [t EXCEPT !.c = s.c + 1]

\* lines 45-55: the whole call, from the locals s to the returned digest
RECURSIVE BloatRun(_, _, _)
BloatRun(hf, s, n) ==
  IF s.raised THEN NoDigest
  ELSE IF s.c >= n THEN HashDigest(hf, s.h)
  ELSE BloatRun(hf, BloatBody(hf, s), n)

bloat(k, n, hf) == BloatRun(hf, BloatEnter(hf, k), n)

\* ----------------------------------------------------------- crazybloat
\* Locals of one crazybloat activation: its iterations argument, the loop
\* index c and the hasher state.
CrazyEnter(hf, k, n) == [iterations |-> n, c |-> 0, hasher |-> HashNew(hf, k)]

\* variant: the modulus is one too large
CrazyRandomPos_OffByOne(digest, c) == BigEndianMod(Slice8(digest), 0, c + 2)

\* line 103: random_pos = unpack("!Q", hasher.digest()[:8])[0] % (c+1)
CrazyRandomPos(digest, c) == BigEndianMod(Slice8(digest), 0, c + 1)

\* variant: the nested call recomputes the newest entry, not the drawn one
CrazyArg_LoopIndex(hf, f) == f.c

\* line 104: the iterations argument of the nested call
CrazyArg(hf, f) == CrazyRandomPos(HashDigest(hf, f.hasher), f.c)

\* line 104: hasher.update(<value returned by the nested call>)
CrazyResume(hf, f, ret) ==
  [f EXCEPT !.hasher = HashUpdate(hf, f.hasher, ret), !.c = f.c + 1]

\* ----------------------------------------------------------- multibloat
\* variant: a pool without workers is accepted
PoolAccepts_Zero(p) == p >= 0

\* Pool(processes = processes): the constructor rejects fewer than 1 worker.
PoolAccepts(p) == p >= 1

\* line 78: hashfunc(key + str(x)).digest()
SubKey(hf, k, x) == HashDigest(hf, HashNew(hf, k \o Str(x)))

\* IMapIterator._set(i, obj): results arriving in index order go to the
\* ready list, followed by every directly following parked result; the
\* others are parked under their index.
RECURSIVE Flush(_)
Flush(im) ==
  IF \E r \in im.unsorted : r.i = im.index
  THEN LET r == CHOOSE r \in im.unsorted : r.i = im.index
       IN  Flush([im EXCEPT !.items = Append(im.items, r),
                            !.index = im.index + 1,
                            !.unsorted = im.unsorted \ {r}])
  ELSE im

\* variant: results are handed out as they arrive (imap_unordered)
IMapSet_Unordered(im, r) ==
  [im EXCEPT !.items = Append(im.items, r), !.index = im.index + 1]

IMapSet(im, r) ==
  IF im.index = r.i
  THEN Flush([im EXCEPT !.items = Append(im.items, r), !.index = im.index + 1])
  ELSE [im EXCEPT !.unsorted = im.unsorted \cup {r}]

\* variant: the iteration ends as soon as nothing is ready
IMapExhausted_Early(im) == im.items = <<>>

\* IMapIterator.next() ends the iteration when nothing is ready and every
\* task has been answered.
IMapExhausted(im) == im.items = <<>> /\ im.index = im.length

\* line 83: hashfunc("".join(digests)).digest()
Combine(hf, ds) == HashDigest(hf, HashNew(hf, Join(ds)))

\* ----------------------------------------------------------- converters
\* variant: one entry too many is counted
iterations_to_memory_Extra(n, hf) == hf.digest_size * (n + 1)

\* line 89
iterations_to_memory(n, hf) == hf.digest_size * n
\* line 95 (integer division of Python 2)
memory_to_iterations(m, hf) == m \div hf.digest_size

\* ---------------------------------------------------------------- state
VARIABLES
  key, iterations, hashfunc, processes,   \* the arguments of the calls
  pc,                                     \* which entry point is running
  b, bpc, bresult,                        \* bloat: locals, position, result
  stack, cpc, cresult,                    \* crazybloat: activations, result
  mpc, streams, nextx, it, outqueue,      \* multibloat: position, tasks,
  digests, mresult,                       \*   imap iterator, results
  order,                                  \* streams in completion order
  memory, back                            \* converter results

inputs == << key, iterations, hashfunc, processes >>
bvars  == << b, bpc, bresult >>
cvars  == << stack, cpc, cresult >>
mvars  == << mpc, streams, nextx, it, outqueue, digests, mresult, order >>
kvars  == << memory, back >>
vars   == << inputs, pc, bvars, cvars, mvars, kvars >>

Streams == 0..(processes - 1)

Init ==
  /\ key \in Keys
  /\ iterations \in 0..MaxIter
  /\ hashfunc \in HashFuncs
  /\ processes \in 0..MaxProc
  /\ pc = "bloat"
  /\ b = BloatEnter(hashfunc, key)
  /\ bpc = "for"
  /\ bresult = NoDigest
  /\ stack = <<>>
  /\ cpc = "call"
  /\ cresult = NoDigest
  /\ mpc = "pool"
  /\ streams = [x \in 0..(processes - 1) |->
                 [st |-> "new", k |-> NoDigest, s |-> BloatEnter(hashfunc, <<>>)]]
  /\ nextx = 0
  /\ it = [items |-> <<>>, index |-> 0, length |-> -1, unsorted |-> {}]
  /\ outqueue = <<>>
  /\ digests = <<>>
  /\ mresult = NoDigest
  /\ order = <<>>
  /\ memory = -1
  /\ back = -1

\* ------------------------------------------------------- bloat, stepwise
\* line 47: for c in xrange(iterations)
BloatFor ==
  /\ pc = "bloat" /\ bpc = "for"
  /\ bpc' = IF b.c < iterations THEN "append" ELSE "return"
  /\ UNCHANGED << inputs, pc, b, bresult, cvars, mvars, kvars >>

BloatDoAppend ==
  /\ pc = "bloat" /\ bpc = "append"
  /\ b' = BloatAppend(hashfunc, b)
  /\ bpc' = "unpack"
  /\ UNCHANGED << inputs, pc, bresult, cvars, mvars, kvars >>

BloatDoIndex ==
  /\ pc = "bloat" /\ bpc = "unpack"
  /\ b' = BloatIndex(hashfunc, b)
  /\ bpc' = "update"
  /\ UNCHANGED << inputs, pc, bresult, cvars, mvars, kvars >>

BloatDoFeed ==
  /\ pc = "bloat" /\ bpc = "update"
  /\ LET t == BloatFeed(hashfunc, b)
     IN  IF t.raised
         THEN /\ b' = t
              /\ bpc' = "raised"
              /\ pc' = "done"
         ELSE /\ b' = [t EXCEPT !.c = b.c + 1]
              /\ bpc' = "for"
              /\ pc' = pc
  /\ UNCHANGED << inputs, bresult, cvars, mvars, kvars >>

\* line 55: return h.digest()
BloatReturn ==
  /\ pc = "bloat" /\ bpc = "return"
  /\ bresult' = HashDigest(hashfunc, b.h)
  /\ bpc' = "returned"
  /\ pc' = "crazybloat"
  /\ UNCHANGED << inputs, b, cvars, mvars, kvars >>

\* -------------------------------------------------- crazybloat, stepwise
\* the outermost call crazybloat(key, iterations, hashfunc)
CrazyCall ==
  /\ pc = "crazybloat" /\ cpc = "call"
  /\ stack' = << CrazyEnter(hashfunc, key, iterations) >>
  /\ cpc' = "run"
  /\ UNCHANGED << inputs, pc, cresult, bvars, mvars, kvars >>

\* lines 102-104: the loop has an index left; the nested call is entered
CrazyRecurse ==
  /\ pc = "crazybloat" /\ cpc = "run"
  /\ LET f == stack[Len(stack)]
     IN  /\ f.c < f.iterations
         /\ stack' = Append(stack, CrazyEnter(hashfunc, key, CrazyArg(hashfunc, f)))
  /\ UNCHANGED << inputs, pc, cpc, cresult, bvars, mvars, kvars >>

\* line 105: the loop is over; the digest goes to the caller, which feeds
\* it to its hasher (line 104) and moves to its next index
CrazyReturn ==
  /\ pc = "crazybloat" /\ cpc = "run"
  /\ LET f   == stack[Len(stack)]
         ret == HashDigest(hashfunc, f.hasher)
     IN  /\ f.c >= f.iterations
         /\ IF Len(stack) = 1
            THEN /\ stack' = <<>>
                 /\ cresult' = ret
                 /\ cpc' = "returned"
                 /\ pc' = "multibloat"
            ELSE /\ stack' = [SubSeq(stack, 1, Len(stack) - 1)
                                EXCEPT ![Len(stack) - 1] =
                                  CrazyResume(hashfunc, stack[Len(stack) - 1], ret)]
                 /\ UNCHANGED << cresult, cpc, pc >>
  /\ UNCHANGED << inputs, bvars, mvars, kvars >>

\* -------------------------------------------------- multibloat, stepwise
\* line 76
PoolCreate ==
  /\ pc = "multibloat" /\ mpc = "pool"
  /\ IF PoolAccepts(processes)
     THEN mpc' = "imap" /\ pc' = pc
     ELSE mpc' = "raised" /\ pc' = "memory"
  /\ UNCHANGED << inputs, streams, nextx, it, outqueue, digests, mresult, order,
                  bvars, cvars, kvars >>

\* lines 78, 80: the pool's task thread draws the next key from the
\* generator and queues the task (k, iterations, hashfunc) under its index
TaskPut ==
  /\ pc = "multibloat" /\ mpc \in {"imap", "close"}
  /\ nextx < processes
  /\ streams' = [streams EXCEPT ![nextx].st = "queued",
                                ![nextx].k = SubKey(hashfunc, key, nextx)]
  /\ nextx' = nextx + 1
  /\ UNCHANGED << inputs, pc, mpc, it, outqueue, digests, mresult, order,
                  bvars, cvars, kvars >>

\* the generator is exhausted: the iterator learns how many results to expect
TaskEnd ==
  /\ pc = "multibloat" /\ mpc \in {"imap", "close"}
  /\ nextx = processes /\ it.length = -1
  /\ it' = [it EXCEPT !.length = nextx]
  /\ UNCHANGED << inputs, pc, mpc, streams, nextx, outqueue, digests, mresult,
                  order, bvars, cvars, kvars >>

\* an idle worker process takes the oldest queued task and enters _b -> bloat
WorkerGet(x) ==
  /\ pc = "multibloat" /\ mpc \in {"imap", "close"}
  /\ streams[x].st = "queued"
  /\ \A y \in Streams : y < x => streams[y].st # "queued"
  /\ Cardinality({y \in Streams : streams[y].st = "running"}) < processes
  /\ streams' = [streams EXCEPT ![x].st = "running",
                                ![x].s = BloatEnter(hashfunc, streams[x].k)]
  /\ UNCHANGED << inputs, pc, mpc, nextx, it, outqueue, digests, mresult, order,
                  bvars, cvars, kvars >>

\* one pass of bloat's loop in the worker of stream x
WorkerRun(x) ==
  /\ pc = "multibloat" /\ mpc \in {"imap", "close"}
  /\ streams[x].st = "running"
  /\ ~ streams[x].s.raised /\ streams[x].s.c < iterations
  /\ streams' = [streams EXCEPT ![x].s = BloatBody(hashfunc, streams[x].s)]
  /\ UNCHANGED << inputs, pc, mpc, nextx, it, outqueue, digests, mresult, order,
                  bvars, cvars, kvars >>

\* bloat returns (or raised) in the worker, which sends the outcome back
WorkerPut(x) ==
  /\ pc = "multibloat" /\ mpc \in {"imap", "close"}
  /\ streams[x].st = "running"
  /\ streams[x].s.raised \/ streams[x].s.c >= iterations
  /\ outqueue' = Append(outqueue,
                   [i |-> x, ok |-> ~ streams[x].s.raised,
                    value |-> IF streams[x].s.raised THEN NoDigest
                              ELSE HashDigest(hashfunc, streams[x].s.h)])
  /\ streams' = [streams EXCEPT ![x].st = "done"]
  /\ order' = Append(order, x)
  /\ UNCHANGED << inputs, pc, mpc, nextx, it, digests, mresult,
                  bvars, cvars, kvars >>

\* the pool's result thread hands the oldest outcome to the imap iterator
HandleResult ==
  /\ pc = "multibloat" /\ mpc \in {"imap", "close"}
  /\ outqueue # <<>>
  /\ it' = IMapSet(it, Head(outqueue))
  /\ outqueue' = Tail(outqueue)
  /\ UNCHANGED << inputs, pc, mpc, streams, nextx, digests, mresult, order,
                  bvars, cvars, kvars >>

\* line 80: tuple(...) draws the next ready result; a failed task re-raises
ImapNext ==
  /\ pc = "multibloat" /\ mpc = "imap"
  /\ it.items # <<>>
  /\ it' = [it EXCEPT !.items = Tail(it.items)]
  /\ IF Head(it.items).ok
     THEN /\ digests' = Append(digests, Head(it.items).value)
          /\ UNCHANGED << mpc, pc >>
     ELSE /\ mpc' = "raised" /\ pc' = "memory"
          /\ UNCHANGED digests
  /\ UNCHANGED << inputs, streams, nextx, outqueue, mresult, order,
                  bvars, cvars, kvars >>

\* line 80: the iterator is exhausted, the tuple is complete
ImapStop ==
  /\ pc = "multibloat" /\ mpc = "imap"
  /\ IMapExhausted(it)
  /\ mpc' = "close"
  /\ UNCHANGED << inputs, pc, streams, nextx, it, outqueue, digests, mresult,
                  order, bvars, cvars, kvars >>

\* line 81: pool.close(); pool.join() returns once every queued task has
\* been run and the workers have exited
PoolJoin ==
  /\ pc = "multibloat" /\ mpc = "close"
  /\ nextx = processes
  /\ \A x \in Streams : streams[x].st = "done"
  /\ mpc' = "hash"
  /\ UNCHANGED << inputs, pc, streams, nextx, it, outqueue, digests, mresult,
                  order, bvars, cvars, kvars >>

\* line 83
MultiReturn ==
  /\ pc = "multibloat" /\ mpc = "hash"
  /\ mresult' = Combine(hashfunc, digests)
  /\ mpc' = "returned"
  /\ pc' = "memory"
  /\ UNCHANGED << inputs, streams, nextx, it, outqueue, digests, order,
                  bvars, cvars, kvars >>

\* ----------------------------------------------------------- converters
IterationsToMemory ==
  /\ pc = "memory" /\ memory = -1
  /\ memory' = iterations_to_memory(iterations, hashfunc)
  /\ UNCHANGED << inputs, pc, back, bvars, cvars, mvars >>

MemoryToIterations ==
  /\ pc = "memory" /\ memory # -1
  /\ back' = memory_to_iterations(memory, hashfunc)
  /\ pc' = "done"
  /\ UNCHANGED << inputs, memory, bvars, cvars, mvars >>

\* ------------------------------------------------------- specifications
BloatNext == BloatFor \/ BloatDoAppend \/ BloatDoIndex \/ BloatDoFeed \/ BloatReturn

CrazyNext == CrazyCall \/ CrazyRecurse \/ CrazyReturn

ChainNext == BloatNext \/ CrazyNext

Next ==
  \/ BloatFor \/ BloatDoAppend \/ BloatDoIndex \/ BloatDoFeed \/ BloatReturn
  \/ CrazyCall \/ CrazyRecurse \/ CrazyReturn
  \/ PoolCreate \/ TaskPut \/ TaskEnd
  \/ (\E x \in Streams : WorkerGet(x))
  \/ (\E x \in Streams : WorkerRun(x))
  \/ (\E x \in Streams : WorkerPut(x))
  \/ HandleResult \/ ImapNext \/ ImapStop \/ PoolJoin \/ MultiReturn
  \/ IterationsToMemory \/ MemoryToIterations

Spec == Init /\ [][Next]_vars

\* The two chain engines alone; a running call always takes its next step.
ChainSpec == Init /\ [][ChainNext]_vars /\ WF_vars(ChainNext)

\* ======================================================== properties

SeedDigest == HashDigest(hashfunc, HashNew(hashfunc, key))

StreamDigest(x) == bloat(SubKey(hashfunc, key, x), iterations, hashfunc)

InIndexOrder == [p \in 1..processes |-> StreamDigest(p - 1)]

C2_StreamIndexOrder ==
  mpc \in {"hash", "returned"} =>
    /\ digests = InIndexOrder
    /\ mpc = "returned" => mresult = Combine(hashfunc, InIndexOrder)

C2_Witness ==
  /\ mpc = "returned" /\ processes >= 2 /\ iterations >= 1
  /\ order[1] # 0
  /\ StreamDigest(0) # StreamDigest(1)

\* C3: the combining hash is computed, and a result returned, only when
\* every stream's bloat has run to its end and its digest has been
\* delivered to the tuple.
C3_JoinBeforeCombine ==
  mpc \in {"hash", "returned"} =>
    /\ \A x \in Streams : streams[x].st = "done" /\ streams[x].s.c = iterations
    /\ outqueue = <<>> /\ it.unsorted = {} /\ it.items = <<>>
    /\ Len(digests) = processes

C3_Witness == mpc = "hash" /\ processes >= 2 /\ iterations >= 1 /\ order[1] # 0

\* C4: crazybloat(key, n, H) returns what bloat(key, n, H) returns, and
\* every nested call crazybloat(key, random_pos, H) hands back the entry
\* a[random_pos] of bloat's table.
C4_CrazyEqualsBloat ==
  /\ cpc = "returned" => cresult = bresult
  /\ \A i \in 2..Len(stack) :
       stack[i].c >= stack[i].iterations =>
         /\ stack[i].iterations < Len(b.a)
         /\ HashDigest(hashfunc, stack[i].hasher) = b.a[stack[i].iterations + 1]

C4_Witness ==
  /\ cpc = "returned" /\ cresult = bresult
  /\ iterations >= 3 /\ b.random_pos \in 1..(iterations - 2)

\* C5: whenever bloat is about to read a[random_pos] in iteration c,
\* 0 <= random_pos <= c and random_pos is below the table's length.
C5_RandomPosInRange ==
  (pc = "bloat" /\ bpc = "update") =>
    /\ b.c \in 0..(iterations - 1)
    /\ b.random_pos \in 0..b.c
    /\ b.random_pos < Len(b.a)

C5_Witness == pc = "bloat" /\ bpc = "update" /\ b.c >= 2 /\ b.random_pos \in 1..(b.c - 1)

\* C6: every step of a bloat run keeps the entries already in the table
\* (the table only grows at its end); right after the append of iteration
\* c it has c+1 entries, with 0 <= c < iterations; it has `iterations`
\* entries when bloat returns.
Extends(new, old) == Len(new) >= Len(old) /\ SubSeq(new, 1, Len(old)) = old

C6_Step ==
  /\ Extends(b'.a, b.a)
  /\ bpc' = "unpack" => (Len(b'.a) = b'.c + 1 /\ b'.c \in 0..(iterations - 1))
  /\ bpc' = "returned" => Len(b'.a) = iterations
  /\ \A x \in Streams :
       /\ Extends(streams'[x].s.a, streams[x].s.a)
       /\ streams'[x].st = "done" => Len(streams'[x].s.a) = iterations

C6_TableAppendOnly == [][C6_Step]_vars

C6_Witness == bpc = "returned" /\ iterations >= 2 /\ Len(b.a) = iterations /\ b.a[1] # b.a[2]

\* C7: memory_to_iterations(iterations_to_memory(n, H), H) = n for every
\* n >= 0.
C7_RoundTrip == back # -1 => back = iterations

C7_Witness == back # -1 /\ iterations >= 2 /\ memory = iterations * hashfunc.digest_size

\* C8: bloat(key, 1, H) returns the digest of H(key) updated once with
\* H(key).digest(); its table holds the seed digest only and random_pos
\* is 0.
C8_SingleIteration ==
  (iterations = 1 /\ pc # "bloat") =>
    /\ bpc = "returned"
    /\ b.a = << SeedDigest >>
    /\ b.random_pos = 0
    /\ bresult = HashDigest(hashfunc,
                   HashUpdate(hashfunc, HashNew(hashfunc, key), SeedDigest))

C8_Witness == iterations = 1 /\ bpc = "returned" /\ bresult # SeedDigest

CrazyDescends ==
  /\ Len(stack) <= iterations + 1
  /\ \A i \in 2..Len(stack) :
       /\ stack[i].iterations \in 0..stack[i - 1].c
       /\ stack[i - 1].c < stack[i - 1].iterations
       /\ stack[i - 1].iterations > 0

C10_CrazyTerminates == []CrazyDescends /\ <>(cpc = "returned")

C10_Witness == iterations >= 2 /\ Len(stack) = iterations + 1

====
